---- MODULE Spec2Model ----
(***************************************************************************)
(* Model of the BookMyShow movie monitor: MovieMonitor (movie_monitor.py)  *)
(* driven either by its continuous loop MovieMonitor.run or by the         *)
(* single-run main() of movie_monitor_single.py.                           *)
(***************************************************************************)
EXTENDS Integers, Sequences, FiniteSets, TLC

\* ------------------------------------------------------------------ bounds
\* Cycles of the continuous loop that are explored.
MaxCycles == 2
\* Longest list of title elements a page load returns.
MaxTitles == 2

\* ------------------------------------------------------- program constants
\* max_retries of run() and of main()
max_retries == 3
\* len(self.user_agents), len(self.viewports)
UserAgentPoolLen == 7
ViewportPoolLen == 7

\* ------------------------------------------------------------------ strings
\* A string is a sequence of characters; str.lower() maps each character.
LowerChar(ch) ==
    IF ch = "C" THEN "c" ELSE IF ch = "X" THEN "x" ELSE ch

Lower(s) == [i \in 1..Len(s) |-> LowerChar(s[i])]

\* s.strip(): drop leading and trailing whitespace.
RECURSIVE LStrip(_)
LStrip(s) ==
    IF s # <<>> /\ Head(s) = " " THEN LStrip(Tail(s)) ELSE s

RECURSIVE RStrip(_)
RStrip(s) ==
    IF s # <<>> /\ s[Len(s)] = " " THEN RStrip(SubSeq(s, 1, Len(s) - 1)) ELSE s

Strip(s) == RStrip(LStrip(s))

\* Python's `t in s` on strings.
IsSubstring(t, s) ==
    \E i \in 0..(Len(s) - Len(t)) : SubSeq(s, i + 1, i + Len(t)) = t

\* element.text_content() of an element without text
NoneText == << "<None>" >>

\* Texts a title element can carry, and the configured movie names explored.
ElementTexts == { <<"C", "X">>, <<"x">>, <<" ", "c", " ">>, NoneText }
MovieNames == { <<"c">>, <<"X">>, <<"C", "x">> }

\* Error messages, as word sequences; lower() maps each word.
LowerWord(w) ==
    CASE w = "Cloudflare" -> "cloudflare"
      [] w = "Timeout" -> "timeout"
      [] w = "BLOCKED" -> "blocked"
      [] w = "Request" -> "request"
      [] OTHER -> w

MsgCloudflare == <<"Cloudflare", "challenge">>
MsgTimeout == <<"Timeout", "waiting", "for", "selector">>
MsgBlocked == <<"Request", "BLOCKED">>
MsgOther == <<"net::ERR_FAILED">>
MsgNoneType == <<"NoneType", "has", "no", "attribute", "strip">>
MsgNewPage == <<"Target", "closed">>
NoMsg == <<>>

FetchErrorMessages == { MsgCloudflare, MsgTimeout, MsgBlocked, MsgOther }

\* `tok in str(e).lower()`
MsgContains(tok, msg) == \E i \in 1..Len(msg) : LowerWord(msg[i]) = tok

VARIABLES
    mode,            \* "run": MovieMonitor.run, "single": movie_monitor_single.main
    pc,              \* position of the controller
    cycle,           \* polling cycles started
    retry,           \* loop variable of `for retry in range(max_retries)`
    found,           \* `found` of run()
    result,          \* what the last check_movie_availability call produced
    excMsg,          \* message of the exception the last call raised, if any
    fetch,           \* what the page fetch of the last call did
    movies_list,     \* titles collected by the last call
    matchLog,        \* titles logged as "Found target movie" by the last call
    movie_name,      \* config["movie_name"]
    attempts,        \* check_movie_availability calls of the current cycle
    blockedSeen,     \* fetch errors with a blocking token seen in the current cycle
    backoffSleeps,   \* backoff sleeps of the current cycle
    cycleSleeps,     \* inter-cycle sleeps of the run
    adminAlerts,     \* send_admin_alert calls of the current cycle
    playwright,      \* self.playwright: 0 is None, else a driver id
    browser,         \* self.browser: 0 is None, else a browser id
    drivers,         \* every Playwright driver started: running, stop calls
    browsers,        \* every browser launched: open, close calls
    ua_index,        \* self.current_user_agent_index
    vp_index,        \* self.current_viewport_index
    channels,        \* config of the three channels
    sends,           \* sends performed per channel
    calls,           \* send_*_notification calls per channel
    failed,          \* channels whose send raised (and was caught)
    notifyCalls,     \* notify_movie_found calls
    afterNotify,     \* attempts and sleeps performed after a dispatch began
    blockWarned,     \* the last attempt logged its "Potential Cloudflare block" warning
    interrupted,     \* a KeyboardInterrupt reached run()
    ua_draws,        \* pool indices drawn by get_next_user_agent, in order
    total_attempts,  \* check_movie_availability calls of the run
    check_interval,  \* config["check_interval"], seconds
    slept,           \* arguments of the time.sleep calls between cycles, in order
    backoff,         \* retry index and seconds of a backoff sleep, or NoBackoff
    retry_count,     \* retry_count argument of the last check_movie_availability call
    exitCode         \* exit code of the single-run process, -1 while running

vars == << mode, pc, cycle, retry, found, result, excMsg, fetch, movies_list,
           matchLog, movie_name, attempts, blockedSeen, backoffSleeps,
           cycleSleeps, adminAlerts, playwright, browser, drivers, browsers,
           ua_index, vp_index, channels, sends, calls, failed, notifyCalls,
           afterNotify,
           blockWarned, interrupted,
           ua_draws,
           total_attempts,
           check_interval,
           slept,
           backoff,
           retry_count,
           exitCode >>

ChannelNames == { "email", "webhook", "telegram" }
\* "off": enabled is false; "incomplete": enabled, credentials or URL missing;
\* "on": enabled and configured.
ChannelStates == { "off", "incomplete", "on" }

NoFetch == [ kind |-> "none", msg |-> NoMsg ]

NoBackoff == [ retry |-> -1, seconds |-> 0 ]

\* load_config: CHECK_INTERVAL from the environment, 300 seconds by default.
DefaultCheckInterval == 300
CheckIntervals == { DefaultCheckInterval, 60 }

\* The state after MovieMonitor() with the poll interval among `intervals`.
Configured(intervals) ==
    /\ mode \in { "run", "single" }
    /\ pc = "start"
    /\ cycle = 0
    /\ retry = 0
    /\ found = FALSE
    /\ result = "none"
    /\ excMsg = NoMsg
    /\ fetch = NoFetch
    /\ movies_list = <<>>
    /\ matchLog = <<>>
    /\ movie_name \in MovieNames
    /\ attempts = 0
    /\ blockedSeen = 0
    /\ backoffSleeps = 0
    /\ cycleSleeps = 0
    /\ adminAlerts = 0
    /\ playwright = 0
    /\ browser = 0
    /\ drivers = <<>>
    /\ browsers = <<>>
    /\ ua_index = 0
    /\ vp_index = 0
    /\ channels \in [ ChannelNames -> ChannelStates ]
    /\ sends = [ c \in ChannelNames |-> 0 ]
    /\ calls = [ c \in ChannelNames |-> 0 ]
    /\ failed = {}
    /\ notifyCalls = 0
    /\ afterNotify = 0
    /\ blockWarned = FALSE
    /\ interrupted = FALSE
    /\ ua_draws = <<>>
    /\ total_attempts = 0
    /\ check_interval \in intervals
    /\ slept = <<>>
    /\ backoff = NoBackoff
    /\ retry_count = 0
    /\ exitCode = -1

Init == Configured({ DefaultCheckInterval })

\* ------------------------------------------------------ rotation cursors
\* Mutation: the cursor wraps one entry early, so the last entry is never drawn.
NextUserAgentIndex_WrapsEarly(i) == (i + 1) % (UserAgentPoolLen - 1)

\* Mutation: the viewport cursor never moves.
NextViewportIndex_Stuck(i) == i

\* get_next_user_agent / get_next_viewport: the cursor after one draw.
NextUserAgentIndex(i) == (i + 1) % UserAgentPoolLen
NextViewportIndex(i) == (i + 1) % ViewportPoolLen

\* ------------------------------------------------------- browser session
\* What a page fetch can do, chosen by the environment for each attempt.
TitleLists == UNION { [ 1..n -> ElementTexts ] : n \in 0..MaxTitles }

\* The pages the polling loop is run against: no element, one element, two
\* elements that can both match, an element without text after a title.
SamplePages ==
    { <<>>, << <<"x">> >>, << <<"C", "X">>, <<" ", "c", " ">> >>,
      << <<"x">>, NoneText >> }

FetchScenarios ==
    { [ kind |-> k, msg |-> MsgOther, texts |-> <<>> ] :
        k \in { "start_fail", "launch_fail" } }
    \cup { [ kind |-> "newpage_fail", msg |-> MsgNewPage, texts |-> <<>> ] }
    \cup { [ kind |-> "error", msg |-> m, texts |-> <<>> ] : m \in FetchErrorMessages }
    \cup { [ kind |-> k, msg |-> NoMsg, texts |-> t ] :
        k \in { "ok", "pageclose_fail" }, t \in SamplePages }

\* What closing can do: both calls succeed, browser.close() raises,
\* playwright.stop() raises.
CloseOutcomes == { "ok", "close_raises", "stop_raises" }

\* setup_browser: start the driver, draw the user agent, launch the browser;
\* any exception is caught and the function returns False. `drawn` holds the
\* pool entry get_next_user_agent returned, if it was called.
SetupBrowser(sc) ==
    IF sc.kind = "start_fail"
    THEN [ ok |-> FALSE, playwright |-> playwright, browser |-> browser,
           drivers |-> drivers, browsers |-> browsers, ua_index |-> ua_index,
           drawn |-> <<>> ]
    ELSE LET drs == Append(drivers, [ running |-> TRUE, stops |-> 0 ])
             ua == NextUserAgentIndex(ua_index)
             user_agent == << ua_index >>
         IN IF sc.kind = "launch_fail"
            THEN [ ok |-> FALSE, playwright |-> Len(drs), browser |-> browser,
                   drivers |-> drs, browsers |-> browsers, ua_index |-> ua,
                   drawn |-> user_agent ]
            ELSE LET brs == Append(browsers, [ open |-> TRUE, closes |-> 0 ])
                 IN [ ok |-> TRUE, playwright |-> Len(drs), browser |-> Len(brs),
                      drivers |-> drs, browsers |-> brs, ua_index |-> ua,
                      drawn |-> user_agent ]

\* close_browser: browser.close() then playwright.stop(), inside one try;
\* an exception of the first call skips the second.
CloseBrowser(pw, br, drs, brs, co) ==
    LET closeRaises == br # 0 /\ co = "close_raises"
        brs1 == IF br = 0 THEN brs
                ELSE [ brs EXCEPT ![br] =
                         [ open |-> IF closeRaises THEN @.open ELSE FALSE,
                           closes |-> @.closes + 1 ] ]
        stopCalled == pw # 0 /\ ~closeRaises
        drs1 == IF ~stopCalled THEN drs
                ELSE [ drs EXCEPT ![pw] =
                         [ running |-> IF co = "stop_raises" THEN @.running ELSE FALSE,
                           stops |-> @.stops + 1 ] ]
    IN [ drivers |-> drs1, browsers |-> brs1 ]

\* ------------------------------------------------------------ classifier
\* Mutation: the comparison forgets to lower-case both sides.
TitleMatches_CaseSensitive(name, title) == IsSubstring(name, title)

\* `self.config["movie_name"].lower() in movie_title.lower()`
TitleMatches(name, title) == IsSubstring(Lower(name), Lower(title))

\* The loop over the title elements: strip, collect, match, log every match.
\* text_content() returning None makes .strip() raise.
RECURSIVE ScanTitles(_, _, _)
ScanTitles(texts, name, acc) ==
    IF texts = <<>> THEN acc
    ELSE IF Head(texts) = NoneText THEN [ acc EXCEPT !.raised = TRUE ]
    ELSE LET title == Strip(Head(texts))
             hit == TitleMatches(name, title)
         IN ScanTitles(Tail(texts), name,
                [ movie_found |-> acc.movie_found \/ hit,
                  movies_list |-> Append(acc.movies_list, title),
                  log |-> IF hit THEN Append(acc.log, title) ELSE acc.log,
                  raised |-> FALSE ])

NoScan == [ movie_found |-> FALSE, movies_list |-> <<>>, log |-> <<>>, raised |-> FALSE ]

\* `if "cloudflare" in str(e).lower() or "blocked" in str(e).lower():` of the
\* except block of check_movie_availability.
WarnsCloudflareBlock(msg) ==
    MsgContains("cloudflare", msg) \/ MsgContains("blocked", msg)

\* Mutation: the except block logs and re-raises instead of returning False.
AttemptExcept_Reraise(msg) ==
    [ ret |-> "raise", exc |-> msg, warn |-> WarnsCloudflareBlock(msg) ]

\* `except Exception as e:` of check_movie_availability: log, warn of a
\* block when the message says so, return False.
AttemptExcept(msg) ==
    [ ret |-> "False", exc |-> NoMsg, warn |-> WarnsCloudflareBlock(msg) ]

\* The try body of check_movie_availability after setup_browser succeeded:
\* what it returns or raises, and the titles it collected.
TryBody(sc) ==
    LET scan == ScanTitles(sc.texts, movie_name, NoScan)
    IN CASE sc.kind = "newpage_fail" ->
              [ out |-> AttemptExcept(sc.msg), scan |-> NoScan, vp |-> vp_index ]
         [] sc.kind = "error" ->
              [ out |-> AttemptExcept(sc.msg), scan |-> NoScan,
                vp |-> NextViewportIndex(vp_index) ]
         [] sc.kind = "ok" /\ ~scan.raised ->
              [ out |-> [ ret |-> IF scan.movie_found THEN "True" ELSE "False",
                          exc |-> NoMsg, warn |-> FALSE ],
                scan |-> scan, vp |-> NextViewportIndex(vp_index) ]
         [] sc.kind = "ok" /\ scan.raised ->
              [ out |-> AttemptExcept(MsgNoneType), scan |-> scan,
                vp |-> NextViewportIndex(vp_index) ]
         [] sc.kind = "pageclose_fail" ->
              [ out |-> AttemptExcept(IF scan.raised THEN MsgNoneType ELSE MsgNewPage),
                scan |-> scan, vp |-> NextViewportIndex(vp_index) ]

\* The fetch error a scenario stands for, as the classifier's input.
FetchOf(sc) ==
    CASE sc.kind \in { "start_fail", "launch_fail", "newpage_fail", "error" } ->
              [ kind |-> sc.kind, msg |-> sc.msg ]
      [] sc.kind = "pageclose_fail" -> [ kind |-> sc.kind, msg |-> MsgNewPage ]
      [] OTHER ->
              IF ScanTitles(sc.texts, movie_name, NoScan).raised
              THEN [ kind |-> "scan_error", msg |-> MsgNoneType ]
              ELSE [ kind |-> "ok", msg |-> NoMsg ]

\* check_movie_availability(retry): one attempt, the whole call.
CheckMovieAvailability(sc, co) ==
    LET sb == SetupBrowser(sc)
        body == TryBody(sc)
        cb == CloseBrowser(sb.playwright, sb.browser, sb.drivers, sb.browsers, co)
    IN /\ playwright' = sb.playwright
       /\ browser' = sb.browser
       /\ ua_index' = sb.ua_index
       /\ ua_draws' = ua_draws \o sb.drawn
       /\ fetch' = FetchOf(sc)
       /\ IF ~sb.ok
          THEN /\ result' = "False"
               /\ excMsg' = NoMsg
               /\ blockWarned' = FALSE
               /\ drivers' = sb.drivers
               /\ browsers' = sb.browsers
               /\ movies_list' = <<>>
               /\ matchLog' = <<>>
               /\ UNCHANGED vp_index
          ELSE /\ result' = body.out.ret
               /\ excMsg' = body.out.exc
               /\ blockWarned' = body.out.warn
               /\ drivers' = cb.drivers
               /\ browsers' = cb.browsers
               /\ movies_list' = body.scan.movies_list
               /\ matchLog' = body.scan.log
               /\ vp_index' = body.vp

\* ------------------------------------------------------- retry controller
\* `"cloudflare" in error_msg or "blocked" in error_msg or "timeout" in error_msg`
IsBlockingError(msg) ==
    \/ MsgContains("cloudflare", msg)
    \/ MsgContains("blocked", msg)
    \/ MsgContains("timeout", msg)

\* Mutation: a `while not found` loop that tries again after every result
\* but True, without the range bound.
RunLoop_Unbounded(res, msg, n) ==
    IF res = "True"
    THEN [ pc |-> "after_loop", retry |-> n, found |-> TRUE, sleeps |-> 0 ]
    ELSE [ pc |-> "attempt", retry |-> n + 1, found |-> FALSE, sleeps |-> 0 ]

\* Mutation: the `elif result is False: break` is missing, so a False result
\* backs off and goes on to the next iteration of the range.
RunLoop_RetryOnFalse(res, msg, n) ==
    IF res = "True"
    THEN [ pc |-> "after_loop", retry |-> n, found |-> TRUE, sleeps |-> 0 ]
    ELSE [ pc |-> IF n + 1 < max_retries THEN "attempt" ELSE "after_loop",
           retry |-> IF n + 1 < max_retries THEN n + 1 ELSE n,
           found |-> FALSE,
           sleeps |-> IF n < max_retries - 1 THEN 1 ELSE 0 ]

\* One iteration of `for retry in range(max_retries)` of run(), after the
\* call produced res (and raised msg when res = "raise"): where control goes.
RunLoop(res, msg, n) ==
    CASE res = "True" ->
            [ pc |-> "after_loop", retry |-> n, found |-> TRUE, sleeps |-> 0 ]
      [] res = "False" ->
            [ pc |-> "after_loop", retry |-> n, found |-> FALSE, sleeps |-> 0 ]
      [] res = "raise" /\ IsBlockingError(msg) ->
            [ pc |-> IF n + 1 < max_retries THEN "attempt" ELSE "after_loop",
              retry |-> IF n + 1 < max_retries THEN n + 1 ELSE n,
              found |-> FALSE,
              sleeps |-> IF n < max_retries - 1 THEN 1 ELSE 0 ]
      [] OTHER ->
            [ pc |-> "after_loop", retry |-> n, found |-> FALSE, sleeps |-> 0 ]

\* Mutation: main() returns True on a match without calling
\* notify_movie_found.
SingleLoop_NoDispatch(res, msg, n) ==
    IF res = "True"
    THEN [ pc |-> "main_returned", retry |-> n, found |-> TRUE,
           sleeps |-> 0, alerts |-> 0, notify |-> 0 ]
    ELSE [ pc |-> "main_returned", retry |-> n, found |-> FALSE,
           sleeps |-> 0, alerts |-> 0, notify |-> 0 ]

\* One iteration of the loop of main() in single-run mode. MovieMonitor has
\* no send_admin_alert method: the call raises AttributeError inside the
\* except block, which ends the process.
SingleLoop(res, msg, n) ==
    CASE res = "True" ->
            [ pc |-> "email", retry |-> n, found |-> TRUE,
              sleeps |-> 0, alerts |-> 0, notify |-> 1 ]
      [] res = "False" ->
            [ pc |-> "main_returned", retry |-> n, found |-> FALSE,
              sleeps |-> 0, alerts |-> 0, notify |-> 0 ]
      [] res = "raise" /\ IsBlockingError(msg) ->
            IF n = 0 \/ ~(n < max_retries - 1)
            THEN [ pc |-> "crashed", retry |-> n, found |-> FALSE,
                   sleeps |-> 0, alerts |-> 1, notify |-> 0 ]
            ELSE [ pc |-> "attempt", retry |-> n + 1, found |-> FALSE,
                   sleeps |-> 1, alerts |-> 0, notify |-> 0 ]
      [] OTHER ->
            [ pc |-> "main_returned", retry |-> n, found |-> FALSE,
              sleeps |-> 0, alerts |-> 0, notify |-> 0 ]

\* Mutation: the dispatch is not guarded by `if found:`.
AfterLoopTarget_Always(f) == "email"

\* Mutation: run() leaves the loop after a cycle that found nothing.
AfterLoopTarget_StopOnFailure(f) == IF f THEN "email" ELSE "finally"

\* `if found:` after the retry loop of run()
AfterLoopTarget(f) == IF f THEN "email" ELSE "cycle_sleep"

\* Mutation: the `break` after notify_movie_found is missing, so run() falls
\* through to the inter-cycle sleep.
AfterDispatch_NoBreak(m) == IF m = "run" THEN "cycle_sleep" ELSE "main_returned"

\* After notify_movie_found returned: `break` out of `while True` to the
\* finally block in run(), `return True` in main().
AfterDispatch(m) == IF m = "run" THEN "finally" ELSE "main_returned"

\* Mutation: the process reports success whatever main() returned.
ExitCode_AlwaysZero(f) == 0

\* `sys.exit(0 if found else 1)`
ExitCode(f) == IF f THEN 0 ELSE 1

\* ------------------------------------------------------------ dispatcher
\* Mutation: the send is not wrapped in try/except, so its failure leaves
\* notify_movie_found.
SendNotification_Propagates(state, ok) ==
    [ sent |-> state = "on", failed |-> state = "on" /\ ~ok,
      raised |-> state = "on" /\ ~ok ]

\* Mutation: the check of the credentials or URL is missing, so an enabled
\* channel sends even when it is not configured.
SendNotification_IgnoresCredentials(state, ok) ==
    [ sent |-> state # "off", failed |-> state # "off" /\ ~ok, raised |-> FALSE ]

\* One send_*_notification call: returns at once unless the channel is
\* enabled and configured; otherwise sends once, and an exception of the
\* send is caught inside the function.
SendNotification(state, ok) ==
    [ sent |-> state = "on", failed |-> state = "on" /\ ~ok, raised |-> FALSE ]

\* ---------------------------------------------------------------- actions
\* Observer: steps taken once a dispatch has begun.
Counted(n) == IF notifyCalls > 0 THEN n ELSE 0

\* Top of `while True:` in run(); start of main() in single-run mode.
BeginCycle ==
    /\ pc = "start"
    /\ cycle' = cycle + 1
    /\ pc' = "attempt"
    /\ retry' = 0
    /\ found' = FALSE
    /\ result' = "none"
    /\ excMsg' = NoMsg
    /\ fetch' = NoFetch
    /\ movies_list' = <<>>
    /\ matchLog' = <<>>
    /\ attempts' = 0
    /\ blockedSeen' = 0
    /\ backoffSleeps' = 0
    /\ adminAlerts' = 0
    /\ blockWarned' = FALSE
    /\ UNCHANGED << retry_count,
                    backoff,
                    slept,
                    check_interval,
                    total_attempts,
                    ua_draws,
                    interrupted,
                    mode, movie_name, cycleSleeps, playwright, browser, drivers,
                    browsers, ua_index, vp_index, channels, sends, calls, failed,
                    notifyCalls, afterNotify, exitCode >>

\* The cycles explored: MaxCycles of the continuous monitor, the one pass of
\* the single-run script.
StartCycle ==
    /\ cycle < (IF mode = "run" THEN MaxCycles ELSE 1)
    /\ BeginCycle

\* Mutation: the call passes the number of attempts made since the process
\* started instead of the loop index.
CallArgument_ProcessWide(n, total) == total

\* The argument of check_movie_availability(retry): the loop index n of
\* `for retry in range(max_retries)`.
CallArgument(n, total) == n

\* result = check_movie_availability(retry)
Attempt ==
    /\ pc = "attempt"
    /\ \E sc \in FetchScenarios, co \in CloseOutcomes :
          /\ CheckMovieAvailability(sc, co)
          /\ blockedSeen' = blockedSeen
                + (IF FetchOf(sc).kind # "ok" /\ IsBlockingError(FetchOf(sc).msg)
                   THEN 1 ELSE 0)
    /\ attempts' = attempts + 1
    /\ afterNotify' = afterNotify + Counted(1)
    /\ pc' = "decide"
    /\ total_attempts' = total_attempts + 1
    /\ retry_count' = CallArgument(retry, total_attempts)
    /\ UNCHANGED << backoff,
                    slept,
                    check_interval,
                    interrupted,
                    mode, cycle, retry, found, movie_name, backoffSleeps,
                    cycleSleeps, adminAlerts, channels, sends, calls, failed,
                    notifyCalls, exitCode >>

\* The rest of the loop iteration: the if/elif on the result, the except
\* block with its backoff sleep, and the move to the next iteration.
Decide ==
    /\ pc = "decide"
    /\ IF mode = "run"
       THEN LET d == RunLoop(result, excMsg, retry)
            IN /\ pc' = d.pc
               /\ retry' = d.retry
               /\ found' = d.found
               /\ backoffSleeps' = backoffSleeps + d.sleeps
               /\ afterNotify' = afterNotify + Counted(d.sleeps)
               /\ UNCHANGED << adminAlerts, notifyCalls, exitCode >>
       ELSE LET d == SingleLoop(result, excMsg, retry)
            IN /\ pc' = IF d.pc = "crashed" THEN "exited" ELSE d.pc
               /\ retry' = d.retry
               /\ found' = d.found
               /\ backoffSleeps' = backoffSleeps + d.sleeps
               /\ afterNotify' = afterNotify + Counted(d.sleeps)
               /\ adminAlerts' = adminAlerts + d.alerts
               /\ notifyCalls' = notifyCalls + d.notify
               /\ exitCode' = IF d.pc = "crashed" THEN 1 ELSE exitCode
    /\ UNCHANGED << retry_count,
                    backoff,
                    slept,
                    check_interval,
                    total_attempts,
                    ua_draws,
                    interrupted,
                    blockWarned,
                    mode, cycle, result, excMsg, fetch, movies_list, matchLog,
                    movie_name, attempts, blockedSeen, cycleSleeps, playwright,
                    browser, drivers, browsers, ua_index, vp_index, channels,
                    sends, calls, failed >>

\* After the retry loop of run(): dispatch when found, else go to sleep.
AfterLoop ==
    /\ pc = "after_loop"
    /\ mode = "run"
    /\ pc' = AfterLoopTarget(found)
    /\ notifyCalls' = notifyCalls + (IF AfterLoopTarget(found) = "email" THEN 1 ELSE 0)
    /\ UNCHANGED << retry_count,
                    backoff,
                    slept,
                    check_interval,
                    total_attempts,
                    ua_draws,
                    interrupted,
                    blockWarned,
                    mode, cycle, retry, found, result, excMsg, fetch, movies_list,
                    matchLog, movie_name, attempts, blockedSeen, backoffSleeps,
                    cycleSleeps, adminAlerts, playwright, browser, drivers,
                    browsers, ua_index, vp_index, channels, sends, calls, failed,
                    afterNotify, exitCode >>

\* Mutation: the sleep ignores the configured interval.
CycleSleepSeconds_Default(interval) == DefaultCheckInterval

\* The argument of the sleep between cycles.
CycleSleepSeconds(interval) == interval

\* time.sleep(self.config["check_interval"]) and back to the top of the loop.
CycleSleep ==
    /\ pc = "cycle_sleep"
    /\ cycleSleeps' = cycleSleeps + 1
    /\ afterNotify' = afterNotify + Counted(1)
    /\ pc' = "start"
    /\ slept' = Append(slept, CycleSleepSeconds(check_interval))
    /\ UNCHANGED << retry_count,
                    backoff,
                    check_interval,
                    total_attempts,
                    ua_draws,
                    interrupted,
                    blockWarned,
                    mode, cycle, retry, found, result, excMsg, fetch, movies_list,
                    matchLog, movie_name, attempts, blockedSeen, backoffSleeps,
                    adminAlerts, playwright, browser, drivers, browsers,
                    ua_index, vp_index, channels, sends, calls, failed, notifyCalls,
                    exitCode >>

\* One channel call of notify_movie_found, then on to `next`. An exception
\* leaving the call would leave notify_movie_found and the loop.
Send(ch, at, next) ==
    /\ pc = at
    /\ \E ok \in BOOLEAN :
         LET r == SendNotification(channels[ch], ok)
         IN /\ sends' = [ sends EXCEPT ![ch] = @ + (IF r.sent THEN 1 ELSE 0) ]
            /\ calls' = [ calls EXCEPT ![ch] = @ + 1 ]
            /\ failed' = IF r.failed THEN failed \cup { ch } ELSE failed
            /\ pc' = CASE ~r.raised -> next
                       [] r.raised /\ mode = "run" -> "finally"
                       [] OTHER -> "exited"
            /\ exitCode' = IF r.raised /\ mode = "single" THEN 1 ELSE exitCode
            /\ found' = IF r.raised /\ mode = "single" THEN FALSE ELSE found
    /\ UNCHANGED << retry_count,
                    backoff,
                    slept,
                    check_interval,
                    total_attempts,
                    ua_draws,
                    interrupted,
                    blockWarned,
                    mode, cycle, retry, result, excMsg, fetch, movies_list,
                    matchLog, movie_name, attempts, blockedSeen, backoffSleeps,
                    cycleSleeps, adminAlerts, playwright, browser, drivers,
                    browsers, ua_index, vp_index, channels, notifyCalls,
                    afterNotify >>

SendEmail == Send("email", "email", "webhook")
SendWebhook == Send("webhook", "webhook", "telegram")
\* After the last channel: `break` to the finally block in run(),
\* `return True` in main().
SendTelegram == Send("telegram", "telegram", AfterDispatch(mode))

\* `finally: self.close_browser()` of run()
RunFinally ==
    /\ pc = "finally"
    /\ \E co \in CloseOutcomes :
         LET cb == CloseBrowser(playwright, browser, drivers, browsers, co)
         IN /\ drivers' = cb.drivers
            /\ browsers' = cb.browsers
    /\ pc' = "exited"
    /\ UNCHANGED << retry_count,
                    backoff,
                    slept,
                    check_interval,
                    total_attempts,
                    ua_draws,
                    interrupted,
                    blockWarned,
                    mode, cycle, retry, found, result, excMsg, fetch, movies_list,
                    matchLog, movie_name, attempts, blockedSeen, backoffSleeps,
                    cycleSleeps, adminAlerts, playwright, browser, ua_index,
                    vp_index, channels, sends, calls, failed, notifyCalls, afterNotify,
                    exitCode >>

\* `found = main(); sys.exit(0 if found else 1)`
SysExit ==
    /\ pc = "main_returned"
    /\ exitCode' = ExitCode(found)
    /\ pc' = "exited"
    /\ UNCHANGED << retry_count,
                    backoff,
                    slept,
                    check_interval,
                    total_attempts,
                    ua_draws,
                    interrupted,
                    blockWarned,
                    mode, cycle, retry, found, result, excMsg, fetch, movies_list,
                    matchLog, movie_name, attempts, blockedSeen, backoffSleeps,
                    cycleSleeps, adminAlerts, playwright, browser, drivers,
                    browsers, ua_index, vp_index, channels, sends, calls, failed,
                    notifyCalls, afterNotify >>

\* KeyboardInterrupt raised anywhere inside the `try:` of run(), between two
\* steps or inside the call in progress: `except KeyboardInterrupt` logs, and
\* control goes to the finally block.
Interrupt ==
    /\ mode = "run"
    /\ pc \notin { "finally", "exited" }
    /\ interrupted' = TRUE
    /\ pc' = "finally"
    /\ UNCHANGED << retry_count,
                    backoff,
                    slept,
                    check_interval,
                    total_attempts,
                    ua_draws,
                    blockWarned, cycle, retry, found, result, excMsg, fetch,
                    movies_list, matchLog, movie_name, attempts, blockedSeen,
                    backoffSleeps, cycleSleeps, adminAlerts, playwright, browser,
                    drivers, browsers, ua_index, vp_index, channels, sends, calls,
                    failed, notifyCalls, afterNotify, exitCode, mode >>

Next ==
    \/ StartCycle
    \/ Attempt
    \/ Decide
    \/ AfterLoop
    \/ CycleSleep
    \/ SendEmail
    \/ SendWebhook
    \/ SendTelegram
    \/ RunFinally
    \/ SysExit

Spec == Init /\ [][Next]_vars

\* The same program with an operator who may interrupt the continuous monitor.
NextInterrupt ==
    \/ Next
    \/ Interrupt

SpecInterrupt == Init /\ [][NextInterrupt]_vars

\* The continuous monitor alone, with its operator. The program is one
\* sequential thread whose calls all return (the page calls carry timeouts,
\* the sleeps are finite), so a step of run() that can be taken is taken;
\* nothing obliges the operator to interrupt.
\* One configured movie name is enough here: the pages explored hold titles
\* that match it and titles that do not.
InitRun == Init /\ mode = "run" /\ movie_name = <<"c">>

NextRun ==
    \/ StartCycle
    \/ Attempt
    \/ Decide
    \/ AfterLoop
    \/ CycleSleep
    \/ SendEmail
    \/ SendWebhook
    \/ SendTelegram
    \/ RunFinally

NextRunInterrupt ==
    \/ NextRun
    \/ Interrupt

SpecRun == InitRun /\ [][NextRunInterrupt]_vars /\ WF_vars(NextRun)

\* ------------------------------------------------------- backoff window
\* `time.sleep(random.randint(30, 90))` in run(), `random.randint(10, 30)`
\* in main(): the durations the sleep before the retry after iteration n
\* can take. Neither call looks at n.
BackoffWindow(md, n) == IF md = "run" THEN 30..90 ELSE 10..30

\* The except block of the retry loop taken on its own, entered at iteration
\* n with an error that carries a blocking token: when the block sleeps, the
\* duration is drawn from the window. (No attempt raises into this block;
\* the block is exercised here as the code it is.)
ExceptBlocking ==
    /\ pc = "start"
    /\ cycle = 0
    /\ backoff = NoBackoff
    /\ \E n \in 0..(max_retries - 1),
          msg \in { m \in FetchErrorMessages : IsBlockingError(m) } :
          LET d == IF mode = "run" THEN RunLoop("raise", msg, n)
                                   ELSE SingleLoop("raise", msg, n)
          IN /\ d.sleeps = 1
             /\ \E s \in BackoffWindow(mode, n) :
                   backoff' = [ retry |-> n, seconds |-> s ]
    /\ pc' = "start"
    /\ UNCHANGED << retry_count,
                    slept, check_interval, total_attempts, ua_draws,
                    interrupted, blockWarned, mode, cycle, retry, found, result,
                    excMsg, fetch, movies_list, matchLog, movie_name, attempts,
                    blockedSeen, backoffSleeps, cycleSleeps, adminAlerts,
                    playwright, browser, drivers, browsers, ua_index, vp_index,
                    channels, sends, calls, failed, notifyCalls, afterNotify,
                    exitCode >>

SpecBackoff == Init /\ [][ExceptBlocking]_vars

\* ------------------------------------------------ configured poll interval
\* The continuous monitor under each poll interval, with every channel
\* configured.
InitSleep ==
    /\ Configured(CheckIntervals)
    /\ mode = "run"
    /\ movie_name = <<"c">>
    /\ channels = [ c \in ChannelNames |-> "on" ]

SpecSleep == InitSleep /\ [][NextRun]_vars

\* ------------------------------------------------ rotation over many cycles
\* The continuous monitor over enough cycles for the user-agent and viewport
\* cursors to wrap, with no channel configured. Each attempt either fails to
\* start the driver, fails to launch the browser, fails to open the page,
\* fails to load it, or loads a page without the movie; the release of the
\* session succeeds.
MaxRotationCycles == 9

InitRotation ==
    /\ Init
    /\ mode = "run"
    /\ movie_name = <<"c">>
    /\ channels = [ c \in ChannelNames |-> "off" ]

RotationScenarios ==
    { [ kind |-> "start_fail", msg |-> MsgOther, texts |-> <<>> ],
      [ kind |-> "launch_fail", msg |-> MsgOther, texts |-> <<>> ],
      [ kind |-> "newpage_fail", msg |-> MsgNewPage, texts |-> <<>> ],
      [ kind |-> "error", msg |-> MsgTimeout, texts |-> <<>> ],
      [ kind |-> "ok", msg |-> NoMsg, texts |-> << <<"X">> >> ] }

StartCycleRotation ==
    /\ cycle < MaxRotationCycles
    /\ BeginCycle

AttemptRotation ==
    /\ pc = "attempt"
    /\ \E sc \in RotationScenarios :
          /\ CheckMovieAvailability(sc, "ok")
          /\ blockedSeen' = blockedSeen
                + (IF FetchOf(sc).kind # "ok" /\ IsBlockingError(FetchOf(sc).msg)
                   THEN 1 ELSE 0)
    /\ attempts' = attempts + 1
    /\ afterNotify' = afterNotify + Counted(1)
    /\ pc' = "decide"
    /\ total_attempts' = total_attempts + 1
    /\ retry_count' = CallArgument(retry, total_attempts)
    /\ UNCHANGED << backoff,
                    slept,
                    check_interval,
                    interrupted,
                    mode, cycle, retry, found, movie_name, backoffSleeps,
                    cycleSleeps, adminAlerts, channels, sends, calls, failed,
                    notifyCalls, exitCode >>

NextRotation ==
    \/ StartCycleRotation
    \/ AttemptRotation
    \/ Decide
    \/ AfterLoop
    \/ CycleSleep

SpecRotation == InitRotation /\ [][NextRotation]_vars

\* ------------------------------------------------- classifier on any page
\* The first attempt of a run against every page of up to MaxTitles title
\* elements: the inputs of the title matching, drawn from all lists.
PageScenarios ==
    { [ kind |-> k, msg |-> NoMsg, texts |-> t ] :
        k \in { "ok", "pageclose_fail" }, t \in TitleLists }

AttemptPage ==
    /\ pc = "attempt"
    /\ \E sc \in PageScenarios, co \in CloseOutcomes :
          /\ CheckMovieAvailability(sc, co)
          /\ blockedSeen' = blockedSeen
    /\ attempts' = attempts + 1
    /\ afterNotify' = afterNotify + Counted(1)
    /\ pc' = "decide"
    /\ total_attempts' = total_attempts + 1
    /\ retry_count' = CallArgument(retry, total_attempts)
    /\ UNCHANGED << backoff,
                    slept,
                    check_interval,
                    interrupted,
                    mode, cycle, retry, found, movie_name, backoffSleeps,
                    cycleSleeps, adminAlerts, channels, sends, calls, failed,
                    notifyCalls, exitCode >>

NextPage ==
    \/ StartCycle
    \/ AttemptPage
    \/ Decide

SpecPage == Init /\ [][NextPage]_vars

\* ------------------------------------------------------ attempt outcomes
\* The outcome of the last attempt, in the terms of the design: a fetch
\* error is Blocked when its message carries a blocking token, fatal
\* otherwise; a page that loaded is Found or NotFound.
FetchFailed == fetch.kind \notin { "ok", "none" }
BlockedOutcome == FetchFailed /\ IsBlockingError(fetch.msg)
FatalOutcome == FetchFailed /\ ~IsBlockingError(fetch.msg)
NotFoundOutcome == fetch.kind = "ok" /\ result = "False"
FoundOutcome == fetch.kind = "ok" /\ result = "True"
CycleEnded == pc \in { "after_loop", "cycle_sleep", "main_returned", "exited", "finally" }
Dispatching == pc \in { "email", "webhook", "telegram" }

\* ------------------------------------------------------------------ claims

\* C1: when attempt n of a cycle ends Blocked (a fetch error whose message
\* contains cloudflare, blocked or timeout) and n < max_retries - 1, the
\* controller sleeps for a backoff and performs attempt n+1 in the same cycle.
C1_RetryAfterBlocked ==
    [][ (pc = "decide" /\ BlockedOutcome /\ retry < max_retries - 1)
          => (pc' = "attempt" /\ retry' = retry + 1
              /\ backoffSleeps' = backoffSleeps + 1) ]_vars

\* C2: notify_movie_found is invoked at most once in a run, exactly once
\* when an attempt returned Found, and once it has been invoked no further
\* attempt, backoff sleep or inter-cycle sleep is performed.
C2_DispatchOnceThenStop ==
    /\ notifyCalls <= 1
    /\ afterNotify = 0
    /\ (notifyCalls = 1) =>
          (result = "True" /\ (Dispatching \/ pc \in { "finally", "main_returned", "exited" }))
    /\ (result = "True" /\ pc \notin { "decide", "after_loop" }) => notifyCalls = 1

C2_Witness == mode = "run" /\ pc = "exited" /\ notifyCalls = 1 /\ FoundOutcome

\* C3: the attempts made in one polling cycle never exceed max_retries, in
\* the continuous loop and in single-run mode.
C3_AttemptsBounded == attempts <= max_retries

C3_Witness == CycleEnded /\ attempts >= 1 /\ BlockedOutcome

\* C4: after a NotFound or a fatal-error outcome the cycle ends at once: the
\* next step of the controller performs no backoff sleep and starts no
\* further attempt of that cycle.
C4_NoRetryOnNotFoundOrFatal ==
    [][ (pc = "decide" /\ (NotFoundOutcome \/ FatalOutcome))
          => (pc' \in { "after_loop", "main_returned" }
              /\ backoffSleeps' = backoffSleeps
              /\ attempts' = attempts /\ retry' = retry /\ found' = FALSE) ]_vars

C4_Witness ==
    pc = "after_loop" /\ FatalOutcome /\ fetch.msg = MsgOther /\ fetch.kind = "error"
    /\ attempts = 1 /\ backoffSleeps = 0

\* C5: the dispatch is invoked only when the most recent attempt of the
\* current cycle returned Found; a cycle that ends otherwise never invokes it.
C5_DispatchOnlyOnFound ==
    /\ (notifyCalls > 0 \/ Dispatching) => FoundOutcome
    /\ (CycleEnded /\ ~FoundOutcome) =>
          (notifyCalls = 0 /\ sends = [ c \in ChannelNames |-> 0 ])

C5_Witness == pc = "cycle_sleep" /\ NotFoundOutcome /\ notifyCalls = 0 /\ cycle = 2

\* C6: in one dispatch every channel function is called exactly once and every
\* enabled and configured channel performs exactly one send, whatever the
\* outcomes of the other channels; no channel is called or sends twice.
DispatchDone == notifyCalls > 0 /\ ~Dispatching
IsOn(c) == channels[c] = "on"
SentOnce(c) == calls[c] = 1 /\ (IsOn(c) => sends[c] = 1)
C6_EachChannelOnce ==
    /\ \A c \in ChannelNames : sends[c] <= calls[c] /\ calls[c] <= 1
    /\ DispatchDone => \A c \in ChannelNames : SentOnce(c)
    /\ pc = "webhook" => SentOnce("email")
    /\ pc = "telegram" => (SentOnce("email") /\ SentOnce("webhook"))

C6_Witness ==
    /\ DispatchDone
    /\ failed = { "email", "webhook" }
    /\ sends = [ c \in ChannelNames |-> 1 ]

\* C7: every browser session acquired for an attempt (driver started, browser
\* launched) is released before the attempt returns, on every exit path.
C7_SessionReleased ==
    pc = "decide" =>
        /\ \A d \in 1..Len(drivers) : ~drivers[d].running
        /\ \A b \in 1..Len(browsers) : ~browsers[b].open

\* C8: a cycle whose attempts were all blocked makes max_retries attempts,
\* emits exactly two admin alerts and never invokes the dispatch.
C8_BlockedCycleAlerts ==
    (CycleEnded /\ attempts >= 1 /\ blockedSeen = attempts)
        => (attempts = max_retries /\ adminAlerts = 2 /\ notifyCalls = 0)

\* C9: in single-run mode the process exits with code 0 exactly when the
\* target was Found and the dispatch was invoked in this run; every other
\* outcome exits with a non-zero code.
C9_ExitCode ==
    (mode = "single" /\ pc = "exited")
        => /\ exitCode \in { 0, 1 }
           /\ (exitCode = 0) <=> (FoundOutcome /\ notifyCalls = 1 /\ DispatchDone)

C9_Witness == mode = "single" /\ pc = "exited" /\ exitCode = 0

\* Containment of t in s up to letter case, stated on the characters.
SameLetter(a, b) == a = b \/ { a, b } = { "C", "c" } \/ { a, b } = { "X", "x" }
ContainsIgnoringCase(t, s) ==
    \E i \in 0..(Len(s) - Len(t)) : \A k \in 1..Len(t) : SameLetter(s[i + k], t[k])
IsMatch(title) == ContainsIgnoringCase(movie_name, title)
MatchingTitles == SelectSeq(movies_list, IsMatch)
PageLoaded == pc = "decide" /\ fetch.kind = "ok"

\* C10 (as stated): a successful fetch is Found exactly when some title of L
\* contains the target up to case (an empty L is NotFound), and the matched
\* title reported is the first such title of L, and only that one.
C10_FirstMatchOnlyReported ==
    PageLoaded =>
        /\ (result = "True") <=> (MatchingTitles # <<>>)
        /\ (result = "True") => matchLog = << Head(MatchingTitles) >>

\* C10 (amended): a successful fetch is Found exactly when some title of L
\* contains the target up to case (an empty L is NotFound); every matching
\* title is reported, in L's order, so the first one reported is the first
\* matching title of L.
C10_FoundIffMatchAllReported ==
    PageLoaded =>
        /\ (result = "True") <=> (MatchingTitles # <<>>)
        /\ (movies_list = <<>>) => result = "False"
        /\ matchLog = MatchingTitles
        /\ (result = "True") => Head(matchLog) = Head(MatchingTitles)

C10_Witness ==
    /\ PageLoaded /\ result = "True"
    /\ Len(movies_list) = 2 /\ Len(matchLog) = 2
    /\ matchLog[1] # matchLog[2]
    /\ ~IsSubstring(movie_name, matchLog[1])

\* C11: every fetch error whose message contains cloudflare, blocked or
\* timeout (in any case) is classified as Blocked by every place that
\* classifies errors, and an error with none of the tokens never is: the
\* except block of the attempt flags exactly those errors, and the controller
\* then retries them (sleeps and goes on to the next attempt of the cycle).
ThreeTokenBlocked(msg) ==
    \E i \in 1..Len(msg) :
        msg[i] \in { "cloudflare", "Cloudflare", "blocked", "BLOCKED", "timeout", "Timeout" }
RaisedInTry == fetch.kind \in { "newpage_fail", "error", "scan_error", "pageclose_fail" }
C11_BlockedClassifiedEverywhere ==
    (pc = "decide" /\ RaisedInTry) => (blockWarned <=> ThreeTokenBlocked(fetch.msg))

\* C12: an interrupt arriving at any point of the continuous monitor stops
\* the loop without a further attempt or sleep, and leaves no partial Found
\* notification: when the monitor stops, either none or every one of the
\* enabled and configured channels has been called for the Found event.
C12_InterruptNoPartialDispatch ==
    interrupted =>
        /\ pc \in { "finally", "exited" }
        /\ \/ \A c \in ChannelNames : IsOn(c) => calls[c] = 0
           \/ \A c \in ChannelNames : IsOn(c) => calls[c] = 1

\* C13: an attempt never raises to its caller: whatever fails in it (driver
\* start, browser launch, page creation, navigation, selector wait, reading a
\* title, closing the page or the browser), check_movie_availability returns
\* True or False and no exception reaches the polling loop.
C13_AttemptNeverRaises ==
    (pc = "decide") => (result \in { "True", "False" } /\ excMsg = NoMsg)

C13_Witness ==
    /\ pc = "decide" /\ fetch = [ kind |-> "error", msg |-> MsgTimeout ]
    /\ result = "False"
    /\ browsers # <<>> /\ browsers[Len(browsers)].open

\* C14: the continuous monitor keeps running across failed cycles: after a
\* cycle that did not end in Found a next cycle is eventually started (unless
\* the operator interrupts), and the loop is left only after a Found or an
\* interrupt. (No step of the scheduler itself raises in this model.)
CycleFailed(n) == cycle = n /\ pc = "after_loop" /\ ~found
C14_KeepsRunning ==
    /\ [](pc \in { "finally", "exited" } => (notifyCalls = 1 \/ interrupted))
    /\ \A n \in 1..(MaxCycles - 1) :
          CycleFailed(n) ~> ((cycle = n + 1 /\ pc = "attempt") \/ interrupted)

C14_Witness ==
    /\ cycle = 2 /\ pc = "attempt" /\ cycleSleeps = 1 /\ ~interrupted
    /\ notifyCalls = 0

\* C15: over any sequence of attempts, across cycles, every block of
\* pool-length consecutive user-agent draws holds every pool entry exactly
\* once, and the draw that follows a block repeats the block's first entry:
\* the cursor is not reset when a cycle ends.
C15_EachEntryOncePerBlock ==
    /\ \A j \in 1..Len(ua_draws) :
          j + UserAgentPoolLen - 1 <= Len(ua_draws) =>
             { ua_draws[j + k] : k \in 0..(UserAgentPoolLen - 1) }
                = 0..(UserAgentPoolLen - 1)
    /\ \A j \in 1..Len(ua_draws) :
          j + UserAgentPoolLen <= Len(ua_draws) =>
             ua_draws[j + UserAgentPoolLen] = ua_draws[j]

\* A full traversal and the start of the next, spread over more cycles than
\* draws (one attempt drew nothing).
C15_Witness ==
    /\ Len(ua_draws) = UserAgentPoolLen + 1
    /\ ua_draws[UserAgentPoolLen + 1] = ua_draws[1]
    /\ cycle = UserAgentPoolLen + 2
    /\ total_attempts = UserAgentPoolLen + 2

\* C16 as stated: every attempt advances both cursors by one whatever its
\* outcome, so after k attempts each cursor equals k modulo its pool length.
C16_CursorsFollowAttemptCount ==
    /\ ua_index = total_attempts % UserAgentPoolLen
    /\ vp_index = total_attempts % ViewportPoolLen

\* The attempts that reach each draw: the user agent is drawn once the driver
\* has started, the viewport once the page has been created.
DrawsUserAgent(f) == f.kind # "start_fail"
DrawsViewport(f) == f.kind \notin { "start_fail", "launch_fail", "newpage_fail" }

\* C16 (amended): an attempt advances the user-agent cursor by exactly one
\* position modulo the pool length unless the driver fails to start, and the
\* viewport cursor by exactly one position modulo the pool length unless the
\* driver start, the browser launch or the page creation fails; in those
\* cases the cursor stays where it was. No other step moves a cursor.
C16_CursorsAdvanceWithDraws ==
    [][ /\ total_attempts' = total_attempts + 1 =>
            /\ ua_index' = IF DrawsUserAgent(fetch')
                            THEN (ua_index + 1) % UserAgentPoolLen
                            ELSE ua_index
            /\ vp_index' = IF DrawsViewport(fetch')
                            THEN (vp_index + 1) % ViewportPoolLen
                            ELSE vp_index
        /\ total_attempts' = total_attempts => UNCHANGED << ua_index, vp_index >>
      ]_vars

\* Eight attempts in: one never started the driver, the last one failed to
\* create its page; the user-agent cursor has wrapped, the viewport cursor
\* is one draw behind it.
C16_Witness ==
    /\ pc = "decide"
    /\ fetch.kind = "newpage_fail"
    /\ total_attempts = UserAgentPoolLen + 1
    /\ ua_index = 0
    /\ vp_index = ViewportPoolLen - 1

\* C17: in the continuous monitor every cycle that does not end in Found is
\* followed by exactly one sleep of the configured poll interval before the
\* next cycle's first attempt, and a Found cycle is followed by none: the
\* sleeps made so far number the cycles completed without Found.
C17_OneSleepPerUnfoundCycle ==
    /\ \A i \in 1..Len(slept) : slept[i] = check_interval
    /\ Len(slept) = cycleSleeps
    /\ (pc = "start" /\ cycle > 0) => Len(slept) = cycle
    /\ (pc # "start" /\ cycle > 0) => Len(slept) = cycle - 1
    /\ notifyCalls > 0 => (found /\ Len(slept) = cycle - 1)

\* Second cycle found the movie after a first cycle that did not, under a
\* poll interval other than the default; the dispatch is over.
C17_Witness ==
    /\ cycle = 2
    /\ DispatchDone
    /\ pc = "exited"
    /\ slept = << 60 >>

\* Width of a window of durations.
WindowMax(w) == CHOOSE x \in w : \A y \in w : y <= x
WindowMin(w) == CHOOSE x \in w : \A y \in w : x <= y
WindowWidth(w) == WindowMax(w) - WindowMin(w)

C19_LevelIsAttemptsMadeInCycle ==
    pc = "decide" =>
       /\ retry_count = attempts - 1
       /\ retry_count = retry
       /\ attempts = 1 => retry_count = 0

\* The first attempt of the second cycle has just been made.
C19_Witness ==
    /\ pc = "decide"
    /\ cycle = 2
    /\ total_attempts = 2
    /\ attempts = 1
    /\ retry_count = 0

\* Where notify_movie_found goes after calling a channel.
AfterChannel(c) ==
    CASE c = "email" -> "webhook"
      [] c = "webhook" -> "telegram"
      [] OTHER -> AfterDispatch(mode)

\* C20: during a dispatch a channel that is disabled, or enabled without its
\* URL or credentials, sends nothing and records no failure, and the call
\* that skips it changes nothing else: the dispatch moves on to the channel
\* it would have called next anyway.
C20_SkippedChannelSendsNothing ==
    /\ [](\A c \in ChannelNames : ~IsOn(c) => (sends[c] = 0 /\ c \notin failed))
    /\ [][ \A c \in ChannelNames :
             (calls'[c] = calls[c] + 1 /\ ~IsOn(c)) =>
                /\ sends' = sends
                /\ failed' = failed
                /\ pc' = AfterChannel(c)
                /\ UNCHANGED << found, exitCode, notifyCalls >>
          ]_vars

\* A dispatch is over with email disabled and the webhook lacking its URL:
\* both were called and skipped, and the chat-bot channel still sent.
C20_Witness ==
    /\ DispatchDone
    /\ channels = [ email |-> "off", webhook |-> "incomplete", telegram |-> "on" ]
    /\ calls = [ c \in ChannelNames |-> 1 ]
    /\ sends = [ email |-> 0, webhook |-> 0, telegram |-> 1 ]

\* C21: no session is released twice: over a run of the continuous monitor
\* close is called at most once on each launched browser and stop at most
\* once on each started driver, the close_browser call of run()'s finally
\* block included.
C21_ReleasedAtMostOnce ==
    mode = "run" =>
       /\ \A b \in 1..Len(browsers) : browsers[b].closes <= 1
       /\ \A d \in 1..Len(drivers) : drivers[d].stops <= 1

\* The decision of each loop on the outcome of the attempt just made: whether
\* it attempts again, whether the cycle is Found, whether it dispatches.
RunDecision ==
    LET d == RunLoop(result, excMsg, retry)
    IN [ again |-> d.pc = "attempt", retry |-> d.retry, found |-> d.found,
         dispatch |-> d.pc = "after_loop" /\ AfterLoopTarget(d.found) = "email" ]
SingleDecision ==
    LET d == SingleLoop(result, excMsg, retry)
    IN [ again |-> d.pc = "attempt", retry |-> d.retry, found |-> d.found,
         dispatch |-> d.notify = 1 ]

\* The cycle's loop is over and, when found, its dispatch has begun.
CycleSettled == cycle >= 1 /\ pc \notin { "attempt", "decide", "after_loop" }

\* C22: on every sequence of attempt outcomes the single-run script and one
\* cycle of the continuous monitor decide alike: after each attempt the two
\* loops agree on attempting again, on Found and on dispatching, and in
\* either mode a cycle makes the same number of attempts, ends Found exactly
\* when its attempt returned True and dispatches exactly when Found.
C22_SingleAndRunDecideAlike ==
    /\ pc = "decide" => RunDecision = SingleDecision
    /\ CycleSettled =>
          /\ attempts = 1
          /\ found <=> result = "True"
          /\ notifyCalls = 1 <=> found

\* The single-run script has found the movie and returned from its dispatch
\* after one attempt.
C22_Witness ==
    /\ mode = "single"
    /\ pc = "main_returned"
    /\ FoundOutcome
    /\ attempts = 1
    /\ notifyCalls = 1

====
